---------------------------- MODULE Spec2Model ----------------------------
(***************************************************************************)
(* The "post exactly one item per run" pipelines of post.equalle.com:      *)
(* facebook_reels/post_one_reel.py ("fb"), instagram_reels/post_one_reel.py *)
(* ("ig") and youtube-post/post_one_video.py ("yt").  Each run loads the   *)
(* JSON state file (the publish ledger), rotates the starting manifest     *)
(* once per UTC day, picks the first item that is neither posted nor       *)
(* exhausted, runs the upload protocol of its platform and saves the       *)
(* ledger with an atomic replace.                                          *)
(***************************************************************************)
EXTENDS Integers, Sequences, FiniteSets, TLC

VARIABLES
    platform,    \* which script runs: "fb", "ig" or "yt"
    manifests,   \* the manifest files on disk (read-only for the scripts)
    today,       \* the current UTC day (1, 2, ...); day 0 stands for ""
    disk,        \* the state file: <<>> when absent, <<state>> otherwise
    started,     \* per video_url: runs that selected it and began a transfer
    published,   \* per video_url: remote publications that succeeded
    firstStart,  \* per day: scan start of the first run that persisted that day
    run,         \* per invocation: program counter and the locals of main()
    loop,        \* the upload retry loop under a configured schedule
    xfer,        \* upload_binary_video in resumable (chunked) mode
    fs,          \* the files save_json_atomic touches, its writer and a reader
    cw           \* the comment workers: comment records, clock, current run

postVars == <<platform, manifests, today, disk, started, published, firstStart, run>>
sideVars == <<loop, xfer, fs, cw>>
vars == <<platform, manifests, today, disk, started, published, firstStart, run,
          loop, xfer, fs, cw>>

-----------------------------------------------------------------------------
(* Bounds of the model *)

MaxDay == 2
MaxStarted == 4
MaxFileSize == 5     \* payload lengths, in units of bytes
MaxChunkSize == 3    \* chunk sizes, in the same unit
MaxChunks == 5       \* chunk requests of one upload

(* Program constants *)

MAX_ATTEMPTS_PER_VIDEO == 3
MAX_UPLOAD_ATTEMPTS == 3
MAX_RUPLOAD_ATTEMPTS == 3

MANIFEST_FILES_ORDER == <<"drywall.json", "wood.json", "wet.json", "metal.json", "plastic.json">>
UPLOAD_RETRY_DELAYS_SEC == <<60, 180, 600>>
RUPLOAD_RETRY_DELAYS_SEC == <<30, 90, 180>>

Platforms == {"fb", "ig", "yt"}
Procs == {1, 2}

-----------------------------------------------------------------------------
(* Texts are sequences of characters, so that str.lower() and the           *)
(* substring tests of the error classifiers are computed, not assumed.      *)

Lower(c) ==
    CASE c = "H" -> "h" [] c = "T" -> "t" [] c = "P" -> "p" [] c = "F" -> "f"
      [] c = "U" -> "u" [] c = "R" -> "r" [] c = "E" -> "e" [] OTHER -> c

LowerText(t) == [i \in 1..Len(t) |-> Lower(t[i])]

Contains(t, pat) ==
    \E i \in 1..(Len(t) - Len(pat) + 1) : SubSeq(t, i, i + Len(pat) - 1) = pat

(* The messages the failing steps raise.  Upload and download failures are  *)
(* "HTTP <status>: <body>" as the upload functions format them; a timeout   *)
(* is the exception text of the HTTP library.                               *)
ErrText(e) ==
    CASE e = "E403"  -> <<"H","T","T","P"," ","4","0","3",":"," ","F","o","r","b","i","d","d","e","n">>
      [] e = "E503"  -> <<"H","T","T","P"," ","5","0","3",":"," ","b","u","s","y">>
      [] e = "E429"  -> <<"H","T","T","P"," ","4","2","9",":"," ","s","l","o","w">>
      [] e = "ETIME" -> <<"R","e","a","d"," ","t","i","m","e","d"," ","o","u","t">>
      [] e = "EPFE"  -> <<"H","T","T","P"," ","4","0","0",":"," ","P","r","o","c","e","s","s","i","n","g","F","a","i","l","e","d","E","r","r","o","r">>
      [] e = "ERPF"  -> <<"H","T","T","P"," ","4","0","0",":"," ","R","e","q","u","e","s","t"," ","p","r","o","c","e","s","s","i","n","g"," ","f","a","i","l","e","d">>
      [] e = "EDL"   -> <<"d","o","w","n","l","o","a","d"," ","f","a","i","l","e","d",":"," ","H","T","T","P"," ","4","0","4">>
      [] OTHER       -> <<"e","r","r","o","r">>

_is_retriable_upload_error(err_text) ==
    LET t == LowerText(err_text) IN
    \/ Contains(t, <<"h","t","t","p"," ","4","2","9">>)
    \/ Contains(t, <<"h","t","t","p"," ","5">>)
    \/ Contains(t, <<"t","i","m","e","o","u","t">>)
    \/ Contains(t, <<"t","i","m","e","d"," ","o","u","t">>)
    \/ Contains(t, <<"c","o","n","n","e","c","t","i","o","n"," ","r","e","s","e","t">>)
    \/ Contains(t, <<"c","o","n","n","e","c","t","i","o","n"," ","a","b","o","r","t","e","d">>)
    \/ Contains(t, <<"r","e","q","u","e","s","t"," ","p","r","o","c","e","s","s","i","n","g"," ","f","a","i","l","e","d">>)
    \/ Contains(t, <<"p","r","o","c","e","s","s","i","n","g"," ","f","a","i","l","e","d">>)

_is_retriable_rupload_error(err_text) ==
    LET t == LowerText(err_text) IN
    \/ Contains(t, <<"p","r","o","c","e","s","s","i","n","g","f","a","i","l","e","d","e","r","r","o","r">>)
    \/ Contains(t, <<"r","e","t","r","i","a","b","l","e","\"",":","t","r","u","e">>)
    \/ Contains(t, <<"h","t","t","p"," ","4","2","9">>)
    \/ Contains(t, <<"h","t","t","p"," ","5">>)
    \/ Contains(t, <<"t","i","m","e","o","u","t">>)
    \/ Contains(t, <<"t","i","m","e","d"," ","o","u","t">>)
    \/ Contains(t, <<"c","o","n","n","e","c","t","i","o","n"," ","r","e","s","e","t">>)
    \/ Contains(t, <<"c","o","n","n","e","c","t","i","o","n"," ","a","b","o","r","t","e","d">>)


(* the failures the model lets the upload step meet, and the failure it    *)
(* lets every other step meet                                              *)
FbUploadErrors == {"E403", "E503", "EPFE"}
IgUploadErrors == {"E403", "E503", "EPFE"}
YtUploadErrors == {"E403"}
StepError == "E503"

-----------------------------------------------------------------------------
(* The manifest files.  A raw item is what a manifest lists; status is a    *)
(* text because the YouTube script compares status.lower() with "ready".    *)

URLS == {"a", "b", "c"}
N == Len(MANIFEST_FILES_ORDER)
ExtraManifest == "extra.json"
ManifestNames == {MANIFEST_FILES_ORDER[i] : i \in 1..N} \cup {ExtraManifest}

Ready == <<"r","e","a","d","y">>
ReadyCap == <<"R","e","a","d","y">>
Draft == <<"d","r","a","f","t">>

Raw(u, t, s) == [video_url |-> u, title |-> t, status |-> s]
File(items) == [exists |-> TRUE, items |-> items]
Missing == [exists |-> FALSE, items |-> <<>>]

(* one item in the first bucket, the other buckets empty *)
LayoutOne ==
    [m \in ManifestNames |->
        CASE m = "drywall.json" -> File(<<Raw("a", "T", <<>>)>>)
          [] m = ExtraManifest  -> Missing
          [] OTHER              -> File(<<>>)]

(* items in the first and in the last bucket, one manifest file absent *)
LayoutTwo ==
    [m \in ManifestNames |->
        CASE m = "drywall.json" -> File(<<Raw("a", "T", ReadyCap)>>)
          [] m = "plastic.json" -> File(<<Raw("b", "T", Ready)>>)
          [] m = "wood.json"    -> Missing
          [] m = ExtraManifest  -> Missing
          [] OTHER              -> File(<<>>)]

(* two items in one bucket, behind an entry without video_url *)
LayoutPair ==
    [m \in ManifestNames |->
        CASE m = "wet.json"     -> File(<<Raw("", "T", <<>>), Raw("b", "T", <<>>),
                                          Raw("a", "T", <<>>)>>)
          [] m = ExtraManifest  -> Missing
          [] OTHER              -> File(<<>>)]

(* an item without title, a draft, an entry without video_url, and a       *)
(* manifest file that is not in MANIFEST_FILES_ORDER                       *)
LayoutOdd ==
    [m \in ManifestNames |->
        CASE m = "wood.json"    -> File(<<Raw("a", "", <<>>), Raw("b", "T", Draft)>>)
          [] m = "wet.json"     -> File(<<Raw("", "T", <<>>)>>)
          [] m = ExtraManifest  -> File(<<Raw("c", "T", <<>>)>>)
          [] OTHER              -> Missing]

Layouts == {LayoutOne, LayoutTwo, LayoutPair, LayoutOdd}

(* the scripts and manifest directories the model starts from *)
Configs == (Platforms \X Layouts) \ {<<"ig", LayoutTwo>>}

NoItem == [manifest_name |-> "", video_url |-> "", title |-> "", status |-> <<>>]

(* ensure_required_fields / read_manifest_file: the item of a raw entry *)
MkItem(raw, name) ==
    [manifest_name |-> name, video_url |-> raw.video_url,
     title |-> raw.title, status |-> raw.status]

ItemsOfFile(name) ==
    [i \in 1..Len(manifests[name].items) |-> MkItem(manifests[name].items[i], name)]

-----------------------------------------------------------------------------
(* The state file (publish ledger) *)

EmptyItems == [u \in {} |-> 0]

NoRec == [attempts |-> 0, result |-> "", video_id |-> <<>>, error |-> ""]

(* st_items.get(video_url) or {} *)
Rec(items, u) == IF u \in DOMAIN items THEN items[u] ELSE NoRec

Put_only(items, u, rec) == [v \in {u} |-> rec]

Put(items, u, rec) ==
    [v \in (DOMAIN items) \cup {u} |-> IF v = u THEN rec ELSE items[v]]

(* the state object a script builds when the state file does not exist *)
load_or_init_state(pl, file) ==
    IF file # <<>> THEN file[1]
    ELSE [rotation |-> [manifest_index |-> IF pl = "yt" THEN <<-1>> ELSE <<>>,
                        last_day |-> 0],
          items |-> EmptyItems,
          runs |-> <<>>]

(* variant of update_state_for_attempt that starts the count again on a   *)
(* success                                                                 *)
update_state_for_attempt_reset(state, item, result, video_id, error) ==
    LET rec == Rec(state.items, item.video_url)
        new == [attempts |-> IF result = "success" THEN 0 ELSE rec.attempts + 1,
                result   |-> result,
                video_id |-> IF video_id # <<>> THEN video_id ELSE rec.video_id,
                error    |-> IF error # "" THEN error ELSE rec.error]
    IN [state EXCEPT !.items = Put(state.items, item.video_url, new),
                     !.runs  = Append(@, [video_url |-> item.video_url, result |-> result])]

(* facebook_reels: update_state_for_attempt *)
update_state_for_attempt(state, item, result, video_id, error) ==
    LET rec == Rec(state.items, item.video_url)
        new == [attempts |-> rec.attempts + 1,
                result   |-> result,
                video_id |-> IF video_id # <<>> THEN video_id ELSE rec.video_id,
                error    |-> IF error # "" THEN error ELSE rec.error]
    IN [state EXCEPT !.items = Put(state.items, item.video_url, new),
                     !.runs  = Append(@, [video_url |-> item.video_url, result |-> result])]

(* variant of update_state that keeps only the two latest run entries *)
update_state_trimmed(state, item, result, media_id, error) ==
    LET rec == Rec(state.items, item.video_url)
        new == [attempts |-> rec.attempts + 1,
                result   |-> result,
                video_id |-> IF media_id # <<>> THEN media_id ELSE rec.video_id,
                error    |-> IF error # "" THEN error ELSE rec.error]
        all == Append(state.runs, [video_url |-> item.video_url, result |-> result])
    IN [state EXCEPT !.items = Put(state.items, item.video_url, new),
                     !.runs  = IF Len(all) > 2 THEN Tail(all) ELSE all]

(* instagram_reels: update_state *)
update_state(state, item, result, media_id, error) ==
    LET rec == Rec(state.items, item.video_url)
        new == [attempts |-> rec.attempts + 1,
                result   |-> result,
                video_id |-> IF media_id # <<>> THEN media_id ELSE rec.video_id,
                error    |-> IF error # "" THEN error ELSE rec.error]
    IN [state EXCEPT !.items = Put(state.items, item.video_url, new),
                     !.runs  = Append(@, [video_url |-> item.video_url, result |-> result])]

(* youtube-post: record_attempt (video_id is always overwritten) *)
record_attempt(state, item, result, video_id, error) ==
    LET rec == Rec(state.items, item.video_url)
        new == [attempts |-> rec.attempts + 1,
                result   |-> result,
                video_id |-> video_id,
                error    |-> IF error # "" THEN error ELSE rec.error]
    IN [state EXCEPT !.items = Put(state.items, item.video_url, new),
                     !.runs  = Append(@, [video_url |-> item.video_url, result |-> result])]

RecordAttempt(pl, state, item, result, video_id, error) ==
    CASE pl = "fb" -> update_state_for_attempt(state, item, result, video_id, error)
      [] pl = "ig" -> update_state(state, item, result, video_id, error)
      [] OTHER     -> record_attempt(state, item, result, video_id, error)

-----------------------------------------------------------------------------
(* Daily rotation of the starting manifest *)

(* facebook_reels / instagram_reels: manifest_cycle_for_today.  Returns the *)
(* mutated rotation and the index the returned order starts from.           *)
manifest_cycle_for_today(rot, day) ==
    LET idx0  == IF rot.manifest_index = <<>> THEN -1 ELSE rot.manifest_index[1]
        idx1  == IF idx0 >= 0 THEN (idx0 + 1) % N ELSE 0
        rot1  == IF rot.last_day # day
                 THEN [manifest_index |-> <<idx1>>, last_day |-> day]
                 ELSE rot
        start == (IF rot1.manifest_index = <<>> THEN 0 ELSE rot1.manifest_index[1]) % N
    IN [rotation |-> rot1, start |-> start]

(* youtube-post: the head of pick_next_item.  int(x or -1) reads a stored   *)
(* index 0 as -1, and the scan starts from idx, not from the stored index.  *)
yt_rotation(rot, day) ==
    LET raw   == rot.manifest_index
        idx0  == IF raw = <<>> \/ raw[1] = 0 THEN -1 ELSE raw[1]
        idx   == IF day # rot.last_day THEN (idx0 + 1) % N ELSE idx0
        rot1  == IF day # rot.last_day
                 THEN [manifest_index |-> <<idx>>, last_day |-> day]
                 ELSE rot
    IN [rotation |-> rot1, start |-> idx % N]

(* the manifest names in rotation order, from index start (0-based) *)
OrderFrom(start) == [i \in 1..N |-> MANIFEST_FILES_ORDER[((start + i - 1) % N) + 1]]

RECURSIVE Flatten(_)
Flatten(names) ==
    IF names = <<>> THEN <<>>
    ELSE (IF manifests[Head(names)].exists THEN ItemsOfFile(Head(names)) ELSE <<>>)
         \o Flatten(Tail(names))

-----------------------------------------------------------------------------
(* Eligibility and selection *)

(* variant of is_item_eligible without the test of the recorded result *)
is_item_eligible_anyresult(items, it) ==
    LET rec == Rec(items, it.video_url) IN
    rec.attempts < MAX_ATTEMPTS_PER_VIDEO

(* facebook_reels / instagram_reels: the two tests inside pick_next_item;   *)
(* pinterest: is_item_eligible is the same predicate                        *)
is_item_eligible(items, it) ==
    LET rec == Rec(items, it.video_url) IN
    /\ rec.result # "success"
    /\ rec.attempts < MAX_ATTEMPTS_PER_VIDEO

(* variant of should_skip_item without the test of the recorded result *)
should_skip_item_anyresult(items, it) ==
    IF it.video_url \notin DOMAIN items THEN FALSE
    ELSE items[it.video_url].attempts >= MAX_ATTEMPTS_PER_VIDEO

(* youtube-post: should_skip_item *)
should_skip_item(items, it) ==
    IF it.video_url \notin DOMAIN items THEN FALSE
    ELSE \/ items[it.video_url].result = "success"
         \/ items[it.video_url].attempts >= MAX_ATTEMPTS_PER_VIDEO

(* youtube-post: the three tests of the scan loops of pick_next_item *)
yt_takes(items, it) ==
    /\ ~(it.status # <<>> /\ LowerText(it.status) # Ready)
    /\ ~(it.video_url = "" \/ it.title = "")
    /\ ~should_skip_item(items, it)

Picked(it) == [kind |-> "item", item |-> it]
PickedNone == [kind |-> "none", item |-> NoItem]
PickError == [kind |-> "error", item |-> NoItem]

(* the loop over the items of the existing manifests, in the given order;  *)
(* ensure_required_fields raises on an entry without video_url             *)
RECURSIVE fb_scan(_, _)
fb_scan(L, items) ==
    IF L = <<>> THEN PickedNone
    ELSE IF Head(L).video_url = "" THEN PickError
    ELSE IF is_item_eligible(items, Head(L)) THEN Picked(Head(L))
    ELSE fb_scan(Tail(L), items)

(* facebook_reels / instagram_reels: pick_next_item after the rotation *)
pick_next_item(items, start) ==
    IF \A i \in 1..N : ~manifests[MANIFEST_FILES_ORDER[i]].exists
    THEN PickError
    ELSE fb_scan(Flatten(OrderFrom(start)), items)

(* youtube-post: read_all_items drops the entries without video_url and    *)
(* appends the manifests that are not in MANIFEST_FILES_ORDER              *)
read_all_items ==
    SelectSeq(Flatten(MANIFEST_FILES_ORDER \o <<ExtraManifest>>),
              LAMBDA it : it.video_url # "")

RECURSIVE yt_scan(_, _)
yt_scan(L, items) ==
    IF L = <<>> THEN PickedNone
    ELSE IF yt_takes(items, Head(L)) THEN Picked(Head(L))
    ELSE yt_scan(Tail(L), items)

(* youtube-post: pick_next_item after the rotation: the manifests in order *)
(* from idx, then the fallback scan over everything                        *)
yt_pick_next_item(items, start) ==
    LET all     == read_all_items
        ordered == SelectSeq(Flatten(OrderFrom(start)), LAMBDA it : it.video_url # "")
        first   == yt_scan(ordered, items)
    IN IF first.kind = "item" THEN first ELSE yt_scan(all, items)

(* the rotation and the selection of one run on the loaded state *)
Rotate(pl, rot, day) ==
    IF pl = "yt" THEN yt_rotation(rot, day) ELSE manifest_cycle_for_today(rot, day)

Pick(pl, items, start) ==
    IF pl = "yt" THEN yt_pick_next_item(items, start) ELSE pick_next_item(items, start)

-----------------------------------------------------------------------------
(* The upload retry loop: the test that decides between sleep-and-retry    *)
(* and re-raising, and the delay it sleeps                                 *)

FbRetriable == {e \in FbUploadErrors : _is_retriable_upload_error(ErrText(e))}
IgRetriable == {e \in IgUploadErrors : _is_retriable_rupload_error(ErrText(e))}

Max(a, b) == IF a >= b THEN a ELSE b
Min(a, b) == IF a <= b THEN a ELSE b

(* attempts_total = max(1, int(MAX_UPLOAD_ATTEMPTS)) *)
attempts_total(pl) ==
    IF pl = "fb" THEN Max(1, MAX_UPLOAD_ATTEMPTS)
    ELSE IF pl = "ig" THEN Max(1, MAX_RUPLOAD_ATTEMPTS)
    ELSE 1

(* variant of should_retry without the test of the error text *)
should_retry_anyerror(pl, attempt, e) ==
    attempt < attempts_total(pl)

(* variant of should_retry without the test of the attempt number *)
should_retry_uncapped(pl, attempt, e) ==
    IF pl = "fb" THEN e \in FbRetriable ELSE e \in IgRetriable

(* if attempt < attempts_total and _is_retriable_..._error(last_upload_err) *)
should_retry(pl, attempt, e) ==
    /\ attempt < attempts_total(pl)
    /\ IF pl = "fb" THEN e \in FbRetriable ELSE e \in IgRetriable

(* variant of delay_for that indexes the schedule by the attempt number *)
delay_for_attempt(delays, attempt) ==
    delays[Min(attempt, Len(delays) - 1) + 1]

(* DELAYS[min(attempt - 1, len(DELAYS) - 1)], 0-based in the source *)
delay_for(delays, attempt) ==
    delays[Min(attempt - 1, Len(delays) - 1) + 1]

retry_delay(pl, attempt) ==
    delay_for(IF pl = "fb" THEN UPLOAD_RETRY_DELAYS_SEC ELSE RUPLOAD_RETRY_DELAYS_SEC,
              attempt)

-----------------------------------------------------------------------------
(* The retry configuration read from the environment: int(...) of the      *)
(* attempt count and _parse_retry_delays of the comma-separated delays     *)

Digits == <<"0", "1", "2", "3", "4", "5", "6", "7", "8", "9">>

IsDigit(c) == \E i \in 1..10 : Digits[i] = c

DigitValue(c) == (CHOOSE i \in 1..10 : Digits[i] = c) - 1

RECURSIVE DigitsValue(_)
DigitsValue(t) ==
    IF t = <<>> THEN 0
    ELSE 10 * DigitsValue(SubSeq(t, 1, Len(t) - 1)) + DigitValue(t[Len(t)])

(* str.strip() for blanks *)
RECURSIVE Strip(_)
Strip(t) ==
    IF t = <<>> THEN t
    ELSE IF Head(t) = " " THEN Strip(Tail(t))
    ELSE IF t[Len(t)] = " " THEN Strip(SubSeq(t, 1, Len(t) - 1))
    ELSE t

(* str.split(sep) *)
RECURSIVE SplitOn(_, _)
SplitOn(t, sep) ==
    IF \A i \in 1..Len(t) : t[i] # sep THEN <<t>>
    ELSE LET i == CHOOSE k \in 1..Len(t) : t[k] = sep /\ \A j \in 1..(k - 1) : t[j] # sep
         IN <<SubSeq(t, 1, i - 1)>> \o SplitOn(SubSeq(t, i + 1, Len(t)), sep)

(* int(text): <<v>>, or <<>> where int() raises ValueError *)
int_of(text) ==
    LET t    == Strip(text)
        sgn  == t # <<>> /\ Head(t) \in {"+", "-"}
        body == IF sgn THEN Tail(t) ELSE t
    IN IF body # <<>> /\ \A i \in 1..Len(body) : IsDigit(body[i])
       THEN <<(IF sgn /\ Head(t) = "-" THEN -1 ELSE 1) * DigitsValue(body)>>
       ELSE <<>>

RECURSIVE parse_parts(_)
parse_parts(parts) ==
    IF parts = <<>> THEN <<>>
    ELSE LET part == Strip(Head(parts))
             v    == int_of(part)
         IN (IF part # <<>> /\ v # <<>> /\ v[1] > 0 THEN v ELSE <<>>)
            \o parse_parts(Tail(parts))

(* _parse_retry_delays: the positive integers of the list, or the default  *)
_parse_retry_delays(raw, default) ==
    LET out == parse_parts(SplitOn(raw, ","))
    IN IF out = <<>> THEN default ELSE out

(* values of FB_REELS_UPLOAD_RETRY_DELAYS_SEC / IG_RUPLOAD_RETRY_DELAYS_SEC *)
RawDelays ==
    {<<>>,
     <<"5">>,
     <<"3", ",", "0", ",", "8">>,
     <<"x", ",", " ", "9", " ", ",">>,
     <<"-", "4">>,
     <<"6", "0", ",", "1", "8", "0", ",", "6", "0", "0">>}

(* values of FB_REELS_UPLOAD_MAX_ATTEMPTS / IG_RUPLOAD_MAX_ATTEMPTS *)
RawMaxAttempts == {<<"0">>, <<"1">>, <<"3">>, <<"5">>}

LoopErrors == {"E403", "E503"}

IdleLoop ==
    [pl |-> "", raw |-> <<>>, delays |-> <<>>, total |-> 0, attempt |-> 0,
     log |-> <<>>, sleeps |-> <<>>, pc |-> "off"]

IdleXfer ==
    [size |-> 0, chunk |-> 0, offset |-> 0, sent |-> <<>>, noEo |-> TRUE, pc |-> "off"]

(* the state file and, beside it, the file with ".tmp" added to the suffix *)
StatePath == <<"state", ".json">>

(* variant of tmp_path that names the state file itself *)
tmp_path_same(path) == path

(* tmp = path.with_suffix(path.suffix + ".tmp") *)
tmp_path(path) == <<path[1], path[2], ".tmp">>

Absent == [exists |-> FALSE, text |-> <<>>]

(* json.dumps(data, ...) + "\n" of a ledger whose content is data *)
dumps(data) == <<"{", data, "}", "\n">>

(* json.loads(text): <<data>>, or <<>> where it raises JSONDecodeError *)
loads(text) ==
    IF Len(text) \in {3, 4} /\ text[1] = "{" /\ text[3] = "}"
       /\ (Len(text) = 4 => text[4] = "\n")
    THEN <<text[2]>> ELSE <<>>

Ledgers == {"v1", "v2"}

IdleFs ==
    [files |-> [f \in {StatePath, tmp_path(StatePath)} |-> Absent],
     pc |-> "off", data |-> "", prev |-> Absent, crashed |-> FALSE, seen |-> <<>>]

-----------------------------------------------------------------------------
(* The comment workers (youtube-post/comment_worker.py and                 *)
(* facebook_reels/comment_worker.py)                                       *)

MAX_COMMENT_ATTEMPTS == 2
VERIFY_DELAY_SEC == 180
(* COMMENT_PROBABILITY = 0.90, in hundredths *)
COMMENT_PROBABILITY == 90

TemplateCount(worker) == IF worker = "yt" THEN 25 ELSE 20

(* video ids of the successful runs in the post state, oldest first *)
Videos == <<"a", "b">>

(* the clock: moment i of a history is Moment(i) seconds after its start *)
MaxClock == 5
MaxPosts == 4

Moment(i) ==
    IF i <= 3 THEN <<0, 1740, 1860>>[i] ELSE 86400 + (i - 4) * 1800

(* time.strftime("%Y-%m-%d", time.gmtime()), as a day number *)
utc_today(now) == Moment(now) \div 86400

(* random.Random(seed of sha256(seed_text)): the words the generator yields *)
(* for the seeds in use, a fixed function of the seed text                 *)
stable_rng(seed_text) ==
    IF Len(seed_text) = 1
    THEN IF seed_text[1] = "a" THEN <<12, 0, 57>> ELSE <<95, 0, 31>>
    ELSE <<(IF seed_text[1] = "a" THEN 7 ELSE 73) + 43 * seed_text[3]>>

(* the environment of one run *)
EnvDefault ==
    [always_comment |-> FALSE, retry_skipped |-> FALSE, dry_run |-> FALSE, jitter_max |-> 36]

Envs ==
    {EnvDefault,
     [EnvDefault EXCEPT !.always_comment = TRUE, !.retry_skipped = TRUE],
     [EnvDefault EXCEPT !.dry_run = TRUE, !.jitter_max = 0]}

FreshRec == [status |-> "", attempts |-> 0, plan |-> <<>>, cid |-> <<>>, ts |-> 0,
             tried |-> 0]

(* a record left by an earlier revision of the worker *)
LegacyRec == [FreshRec EXCEPT !.status = "missing", !.attempts = MAX_COMMENT_ATTEMPTS,
                              !.cid = <<"c">>, !.ts = 1]

VideoSet == {Videos[i] : i \in 1..Len(Videos)}

(* the ledger a worker reads the successful uploads from, and the file   *)
(* every save_json_atomic call of the worker writes                      *)
state_paths_shared(worker) ==
    IF worker = "yt"
    THEN [post |-> "youtube_post_state.json", comment |-> "youtube_post_state.json"]
    ELSE [post |-> "facebook_reels_post_state.json",
          comment |-> "facebook_reels_post_state.json"]

state_paths(worker) ==
    IF worker = "yt"
    THEN [post |-> "youtube_post_state.json", comment |-> "youtube_comment_state.json"]
    ELSE [post |-> "facebook_reels_post_state.json",
          comment |-> "facebook_reels_post_state.json"]

IdleCw ==
    [worker |-> "yt", items |-> [v \in VideoSet |-> FreshRec],
     posts |-> [v \in VideoSet |-> 0], asked |-> {},
     calc |-> [v \in VideoSet |-> <<>>],
     now |-> 1, pc |-> "off", env |-> EnvDefault, cur |-> "", out |-> <<>>,
     wrote |-> {}, raised |-> {}, mem |-> <<>>]

reconcile_legacy_missing(rec) ==
    IF rec.status = "missing" THEN [rec EXCEPT !.status = "commented_unverified"] ELSE rec

verify_due_posted_only(rec, now) ==
    /\ rec.status \in {"commented"}
    /\ rec.cid # <<>>
    /\ rec.ts # 0
    /\ ~(Moment(now) - Moment(rec.ts) < VERIFY_DELAY_SEC)

(* does verify_pass reach the existence check for this record at moment now *)
verify_due(rec, now) ==
    /\ rec.status \in {"commented_unverified", "commented"}
    /\ rec.cid # <<>>
    /\ rec.ts # 0
    /\ ~(Moment(now) - Moment(rec.ts) < VERIFY_DELAY_SEC)

(* youtube_commentthread_exists: "yes", "no" or "err" (the request raised); *)
(* answer is what the remote side gives when it is asked                    *)
youtube_commentthread_exists_quiet(cid, answer) ==
    IF cid = "unknown" \/ answer = "err" THEN "no" ELSE answer

youtube_commentthread_exists(cid, answer) ==
    IF cid = "unknown" THEN "no" ELSE answer

(* the body of the loop of verify_pass for one record *)
verify_pass_noreopen(rec, now, answer) ==
    IF ~verify_due(rec, now) THEN rec
    ELSE LET exists == youtube_commentthread_exists(rec.cid[1], answer)
         IN IF exists = "err" THEN rec
            ELSE IF exists = "yes" THEN [rec EXCEPT !.status = "commented"]
            ELSE [rec EXCEPT !.status = "not_found"]

verify_pass(rec, now, answer) ==
    IF ~verify_due(rec, now) THEN rec
    ELSE LET exists == youtube_commentthread_exists(rec.cid[1], answer)
         IN IF exists = "err" THEN rec
            ELSE IF exists = "yes" THEN [rec EXCEPT !.status = "commented"]
            ELSE [rec EXCEPT !.status = "not_found",
                             !.attempts = IF @ >= MAX_COMMENT_ATTEMPTS
                                          THEN Max(0, MAX_COMMENT_ATTEMPTS - 1) ELSE @]

(* variant of the selection test of the YouTube worker without its status tests *)
pick_eligible_video_run_anystatus(env, rec) ==
    rec.attempts < MAX_COMMENT_ATTEMPTS

(* pick_eligible_video_run: the tests one record has to pass *)
pick_eligible_video_run_retryskipped(env, rec) ==
    /\ rec.status \notin {"commented", "commented_unverified"}
    /\ rec.attempts < MAX_COMMENT_ATTEMPTS

pick_eligible_video_run(env, rec) ==
    /\ rec.status \notin {"commented", "commented_unverified"}
    /\ ~(rec.status = "skipped" /\ ~env.retry_skipped)
    /\ rec.attempts < MAX_COMMENT_ATTEMPTS

(* find_latest_success_to_comment: the tests one record has to pass *)
find_latest_success_to_comment_nocap(rec) ==
    rec.status \notin {"commented", "skipped"}

find_latest_success_to_comment(rec) ==
    /\ rec.status \notin {"commented", "skipped"}
    /\ rec.attempts < MAX_COMMENT_ATTEMPTS

(* the newest successful run whose record passes: <<video_id>>, or <<>> *)
picked(worker, env, items) ==
    LET ok == {i \in 1..Len(Videos) :
                 IF worker = "yt" THEN pick_eligible_video_run(env, items[Videos[i]])
                 ELSE find_latest_success_to_comment(items[Videos[i]])}
    IN IF ok = {} THEN <<>>
       ELSE <<Videos[CHOOSE i \in ok : \A j \in ok : j <= i]>>

(* the jitter delay of a run: randint(0, jitter_max) of the day's generator *)
jitter_delay(video_id, now, jitter_max) ==
    IF jitter_max > 0
    THEN stable_rng(<<video_id, "|", utc_today(now)>>)[1] % (jitter_max + 1)
    ELSE 0

(* the plan main() works with: the stored one, or one drawn from the       *)
(* generator of the video id (random() takes two words, randrange the next) *)
comment_plan(worker, env, rec, video_id) ==
    LET always == worker = "yt" /\ env.always_comment
        rng    == stable_rng(<<video_id>>)
    IN IF rec.plan # <<>> /\ ~always THEN rec.plan[1]
       ELSE [decision |-> IF always \/ rng[1] < COMMENT_PROBABILITY
                          THEN "comment" ELSE "skip",
             template_idx |-> (IF always THEN rng[1] ELSE rng[3]) % TemplateCount(worker)]

-----------------------------------------------------------------------------
(* The steps of main() after the selection, per platform *)

StepsOf(pl) ==
    CASE pl = "fb" -> <<"session", "upload", "publish", "poll">>
      [] pl = "ig" -> <<"download", "session", "upload", "poll", "publish">>
      [] OTHER     -> <<"token", "download", "session", "upload">>

IsLastStep(pl, step) == StepsOf(pl)[Len(StepsOf(pl))] = step

NextStep(pl, step) ==
    LET i == CHOOSE k \in 1..Len(StepsOf(pl)) : StepsOf(pl)[k] = step
    IN StepsOf(pl)[i + 1]

ActivePcs == {"token", "download", "session", "upload", "publish", "poll"}

BlankState ==
    [rotation |-> [manifest_index |-> <<>>, last_day |-> 0],
     items |-> EmptyItems, runs |-> <<>>]

IdleRun ==
    [pc |-> "idle", mem |-> BlankState, item |-> NoItem, selRes |-> "",
     scanStart |-> 0, scanDay |-> 0, att0 |-> 0, vid |-> <<>>,
     upLog |-> <<>>, sleeps |-> <<>>, dl |-> 0, tmp |-> FALSE, sess |-> "",
     poll |-> "", err |-> "", exit |-> ""]

Init ==
    /\ \E c \in Configs : platform = c[1] /\ manifests = c[2]
    /\ today = 1
    /\ disk = <<>>
    /\ started = [u \in URLS |-> 0]
    /\ published = [u \in URLS |-> 0]
    /\ firstStart = [d \in 1..MaxDay |-> <<>>]
    /\ run = [p \in Procs |-> IdleRun]
    /\ loop = IdleLoop
    /\ xfer = IdleXfer
    /\ fs = IdleFs
    /\ cw = IdleCw

(* save_json_atomic(state_path, state): the file is replaced as a whole.   *)
(* firstStart remembers the scan start of the first run that persisted a   *)
(* rotation for its day.                                                   *)
save_json_atomic(state, start) ==
    /\ disk' = <<state>>
    /\ firstStart' =
         IF firstStart[state.rotation.last_day] = <<>>
         THEN [firstStart EXCEPT ![state.rotation.last_day] = <<start>>]
         ELSE firstStart

NoSave == UNCHANGED <<disk, firstStart>>

(* main() up to the end of the selection: load the state file, rotate,     *)
(* pick; the no-item, selection-error and dry-run exits                    *)
Select(p) ==
    /\ run[p].pc \in {"idle", "done"}
    /\ \E dry \in (IF platform = "yt" THEN {FALSE} ELSE BOOLEAN) :
        LET state0 == load_or_init_state(platform, disk)
            r      == Rotate(platform, state0.rotation, today)
            mem1   == [state0 EXCEPT !.rotation = r.rotation]
            pk     == IF platform = "yt" /\ read_all_items = <<>>
                      THEN PickError
                      ELSE Pick(platform, state0.items, r.start)
            u      == pk.item.video_url
            base   == [IdleRun EXCEPT !.mem = mem1, !.selRes = pk.kind,
                                      !.scanStart = r.start, !.scanDay = today,
                                      !.pc = "done"]
        IN
        IF pk.kind = "error" THEN
            /\ ~dry
            /\ run' = [run EXCEPT ![p] =
                          [base EXCEPT !.exit = IF platform = "ig" THEN "1" ELSE "raised"]]
            /\ IF platform = "ig" THEN save_json_atomic(mem1, r.start) ELSE NoSave
            /\ UNCHANGED <<started, published>>
        ELSE IF pk.kind = "none" THEN
            /\ ~dry
            /\ run' = [run EXCEPT ![p] = [base EXCEPT !.exit = "0"]]
            /\ IF platform = "yt" THEN NoSave ELSE save_json_atomic(mem1, r.start)
            /\ UNCHANGED <<started, published>>
        ELSE IF dry THEN
            LET mem2 == IF platform = "ig"
                        THEN update_state(mem1, pk.item, "failed", <<>>, "EDRY")
                        ELSE mem1
            IN /\ run' = [run EXCEPT ![p] =
                             [base EXCEPT !.mem = mem2, !.item = pk.item,
                                          !.selRes = "dry", !.exit = "0",
                                          !.att0 = Rec(state0.items, u).attempts]]
               /\ save_json_atomic(mem2, r.start)
               /\ UNCHANGED <<started, published>>
        ELSE
            /\ started[u] < MaxStarted
            /\ run' = [run EXCEPT ![p] =
                          [base EXCEPT !.item = pk.item,
                                       !.att0 = Rec(state0.items, u).attempts,
                                       !.pc = StepsOf(platform)[1]]]
            /\ NoSave
            /\ UNCHANGED <<started, published>>
    /\ UNCHANGED <<platform, manifests, today>>
    /\ UNCHANGED sideVars

(* a step succeeded and another step follows *)
Advance(p, r) ==
    /\ run' = [run EXCEPT ![p] = [r EXCEPT !.pc = NextStep(platform, run[p].pc)]]
    /\ NoSave

(* the success path: record the attempt as success and save *)
SucceedRun(p, r) ==
    LET st == RecordAttempt(platform, r.mem, r.item, "success", r.vid, "")
    IN /\ run' = [run EXCEPT ![p] = [r EXCEPT !.pc = "done", !.mem = st, !.exit = "0",
                                              !.tmp = FALSE]]
       /\ save_json_atomic(st, r.scanStart)

(* fb, ig: the except clause of main() records the attempt as failed and   *)
(* saves, and the finally clause removes the staged file.  yt: only a failure of the upload PUT is caught, recorded, saved *)
(* and re-raised; a failure of an earlier step leaves main() uncaught.     *)
FailRun(p, r, e) ==
    IF platform = "yt" /\ run[p].pc # "upload"
    THEN /\ run' = [run EXCEPT ![p] = [r EXCEPT !.pc = "done", !.err = e, !.exit = "raised",
                                                !.tmp = FALSE]]
         /\ NoSave
    ELSE LET vid == IF platform = "yt" THEN <<>> ELSE r.vid
             st  == RecordAttempt(platform, r.mem, r.item, "failed", vid, e)
         IN /\ run' = [run EXCEPT ![p] =
                          [r EXCEPT !.pc = "done", !.mem = st, !.err = e, !.tmp = FALSE,
                                    !.exit = IF platform = "yt" THEN "raised" ELSE "1"]]
            /\ save_json_atomic(st, r.scanStart)

StepDone(p, r) ==
    IF IsLastStep(platform, run[p].pc) THEN SucceedRun(p, r) ELSE Advance(p, r)

(* yt: get_access_token() *)
Token(p) ==
    /\ run[p].pc = "token"
    /\ \E ok \in BOOLEAN :
        IF ok THEN StepDone(p, run[p]) ELSE FailRun(p, run[p], StepError)
    /\ UNCHANGED <<platform, manifests, today, started, published>>
    /\ UNCHANGED sideVars

(* ig: download_to_tempfile; yt: download_video.  The first transfer of   *)
(* the run; it stages the payload in a local file.                         *)
Download(p) ==
    /\ run[p].pc = "download"
    /\ \E ok \in BOOLEAN :
        IF ok THEN StepDone(p, [run[p] EXCEPT !.dl = @ + 1, !.tmp = TRUE])
        ELSE FailRun(p, [run[p] EXCEPT !.dl = @ + 1], StepError)
    /\ started' = [started EXCEPT ![run[p].item.video_url] = @ + 1]
    /\ UNCHANGED <<platform, manifests, today, published>>
    /\ UNCHANGED sideVars

(* what the create call of the session step may be answered: a complete   *)
(* response, an HTTP error status, a 200 without the identifier (fb:       *)
(* video_id, ig: id; the YouTube answer carries none) or a 200 without the *)
(* upload endpoint (fb: upload_url, ig: upload_url and uri, yt: Location)  *)
SessionResponses(pl) ==
    IF pl = "yt" THEN {"ok", "http", "nourl"} ELSE {"ok", "http", "noid", "nourl"}

(* variant of session_created that tests the HTTP status only *)
session_created_anybody(resp) == resp # "http"

(* does the create function return (TRUE) or raise (FALSE) *)
session_created(resp) == resp = "ok"

(* fb: create_reel_upload_session; ig: create_reel_container_resumable;    *)
(* yt: youtube_resumable_upload_init                                       *)
Session(p) ==
    /\ run[p].pc = "session"
    /\ \E resp \in SessionResponses(platform) :
        IF session_created(resp)
        THEN StepDone(p, [run[p] EXCEPT !.sess = resp, !.vid =
                 IF platform = "yt" THEN <<>>
                 ELSE <<run[p].item.video_url>>])
        ELSE FailRun(p, [run[p] EXCEPT !.sess = resp], StepError)
    /\ UNCHANGED <<platform, manifests, today, started, published>>
    /\ UNCHANGED sideVars

(* one pass of the upload retry loop (fb: download and upload_binary_video, *)
(* the first pass being the first transfer of the run, and the staged file  *)
(* being removed when the pass fails;                                       *)
(* ig: resumable_upload_bytes); yt: the single youtube_resumable_upload_put, *)
(* which creates the video                                                 *)
Upload(p) ==
    /\ run[p].pc = "upload"
    /\ \E o \in {"ok"} \cup (CASE platform = "fb" -> FbUploadErrors
                               [] platform = "ig" -> IgUploadErrors
                               [] OTHER -> YtUploadErrors) :
        LET r       == [run[p] EXCEPT !.upLog = Append(@, o),
                                      !.dl = IF platform = "fb" THEN @ + 1 ELSE @,
                                      !.tmp = IF platform = "fb" THEN o = "ok" ELSE @]
            attempt == Len(run[p].upLog) + 1
            u       == run[p].item.video_url
        IN
        IF o = "ok" THEN
            IF platform = "yt"
            THEN /\ published' = [published EXCEPT ![u] = @ + 1]
                 /\ StepDone(p, [r EXCEPT !.vid = <<u>>])
            ELSE /\ UNCHANGED published
                 /\ StepDone(p, r)
        ELSE IF should_retry(platform, attempt, o) THEN
            /\ run' = [run EXCEPT ![p] =
                          [r EXCEPT !.sleeps = Append(@, retry_delay(platform, attempt))]]
            /\ NoSave
            /\ UNCHANGED published
        ELSE
            /\ FailRun(p, r, o)
            /\ UNCHANGED published
    /\ started' = IF platform = "fb" /\ run[p].upLog = <<>>
                  THEN [started EXCEPT ![run[p].item.video_url] = @ + 1]
                  ELSE started
    /\ UNCHANGED <<platform, manifests, today>>
    /\ UNCHANGED sideVars

(* fb: publish_reel; ig: publish_container *)
Publish(p) ==
    /\ run[p].pc = "publish"
    /\ \E ok \in BOOLEAN :
        IF ok
        THEN /\ published' = [published EXCEPT ![run[p].item.video_url] = @ + 1]
             /\ StepDone(p, run[p])
        ELSE /\ UNCHANGED published
             /\ FailRun(p, run[p], StepError)
    /\ UNCHANGED <<platform, manifests, today, started>>
    /\ UNCHANGED sideVars

(* fb: wait_until_published; ig: wait_container_finished.  Both return the *)
(* last status when the deadline passes, and main() goes on.               *)
Poll(p) ==
    /\ run[p].pc = "poll"
    /\ \E o \in {"ok", "timeout", "error"} :
        IF o = "error"
        THEN FailRun(p, [run[p] EXCEPT !.poll = o], StepError)
        ELSE StepDone(p, [run[p] EXCEPT !.poll = o])
    /\ UNCHANGED <<platform, manifests, today, started, published>>
    /\ UNCHANGED sideVars

(* midnight UTC; the day is read only by the selection, so a change of day  *)
(* during a run is the same as one right after it                          *)
NextDay ==
    /\ today < MaxDay
    /\ \A p \in Procs : run[p].pc \notin ActivePcs
    /\ today' = today + 1
    /\ UNCHANGED <<platform, manifests, disk, started, published, firstStart, run>>
    /\ UNCHANGED sideVars

(* the steps of a run after its selection *)
Work(p) ==
    \/ Token(p)
    \/ Download(p)
    \/ Session(p)
    \/ Upload(p)
    \/ Publish(p)
    \/ Poll(p)

Step(p) == Select(p) \/ Work(p)

(* non-overlapping runs: one invocation at a time *)
Next == Step(1) \/ NextDay

Spec == Init /\ [][Next]_vars

(* two invocations that may overlap in time *)
Invoke(p) == run[p].pc = "idle" /\ Select(p)

NextOverlap == (\E p \in Procs : Invoke(p) \/ Work(p)) \/ NextDay

(* the overlap is explored from the one-item directory *)
InitOverlap == Init /\ manifests = LayoutOne

SpecOverlap == InitOverlap /\ [][NextOverlap]_vars

-----------------------------------------------------------------------------
(* The upload retry loop of main() under a configured attempt count and    *)
(* delay schedule                                                          *)

(* the posting pipeline at rest *)
PostIdle ==
    /\ platform = "fb"
    /\ manifests = LayoutOne
    /\ today = 1
    /\ disk = <<>>
    /\ started = [u \in URLS |-> 0]
    /\ published = [u \in URLS |-> 0]
    /\ firstStart = [d \in 1..MaxDay |-> <<>>]
    /\ run = [p \in Procs |-> IdleRun]

InitRetry ==
    /\ PostIdle
    /\ xfer = IdleXfer
    /\ fs = IdleFs
    /\ cw = IdleCw
    /\ \E pl \in {"fb", "ig"}, raw \in RawDelays, mx \in RawMaxAttempts :
          loop = [pl |-> pl, raw |-> raw,
                  delays |-> _parse_retry_delays(raw,
                                 IF pl = "fb" THEN <<60, 180, 600>> ELSE <<30, 90, 180>>),
                  total |-> Max(1, int_of(mx)[1]),
                  attempt |-> 1, log |-> <<>>, sleeps |-> <<>>, pc |-> "upload"]

(* one pass of "for attempt in range(1, attempts_total + 1)" *)
RetryPass ==
    /\ loop.pc = "upload"
    /\ \E o \in {"ok"} \cup LoopErrors :
        LET l == [loop EXCEPT !.log = Append(@, o)]
        IN IF o = "ok"
           THEN loop' = [l EXCEPT !.pc = "done"]
           ELSE IF /\ loop.attempt < loop.total
                   /\ o \in (IF loop.pl = "fb" THEN FbRetriable ELSE IgRetriable)
           THEN loop' = [l EXCEPT !.sleeps = Append(@, delay_for(loop.delays, loop.attempt)),
                                  !.attempt = @ + 1]
           ELSE loop' = [l EXCEPT !.pc = "raised"]
    /\ UNCHANGED <<postVars, xfer, fs, cw>>

NextRetry == RetryPass

SpecRetry == InitRetry /\ [][NextRetry]_vars

-----------------------------------------------------------------------------
(* upload_binary_video with FB_REELS_FORCE_RESUMABLE: the chunk loop.  The *)
(* file holds file_size bytes (the size _download_to_tempfile counted).    *)

(* variant of next_offset that keeps the offset when no end_offset comes *)
next_offset_kept(offset, n, resp) ==
    IF resp # <<>> THEN resp[1] ELSE offset

(* eo = j.get("end_offset"); offset = int(eo) if eo is not None, otherwise *)
(* (also when the body is no JSON) offset += len(data)                     *)
next_offset(offset, n, resp) ==
    IF resp # <<>> THEN resp[1] ELSE offset + n

(* the end_offset values a response may carry: nothing, part or all of the *)
(* chunk acknowledged                                                      *)
EndOffsets(offset, n) == {offset, offset + n - 1, offset + n}

InitChunks ==
    /\ PostIdle
    /\ loop = IdleLoop
    /\ fs = IdleFs
    /\ cw = IdleCw
    /\ \E size \in 1..MaxFileSize, chunk \in 1..MaxChunkSize :
          xfer = [size |-> size, chunk |-> chunk, offset |-> 0, sent |-> <<>>,
                  noEo |-> TRUE, pc |-> "loop"]

(* one pass of "while offset < file_size": seek, read, POST, new offset *)
ChunkPost ==
    /\ xfer.pc = "loop"
    /\ Len(xfer.sent) < MaxChunks
    /\ LET n == Max(0, Min(xfer.chunk, xfer.size - xfer.offset))
       IN IF n = 0
          THEN xfer' = [xfer EXCEPT !.pc = "returned"]
          ELSE \E status \in {"200", "500"} :
               \E resp \in {<<>>} \cup {<<e>> : e \in EndOffsets(xfer.offset, n)} :
                 LET x == [xfer EXCEPT !.sent = Append(@, <<xfer.offset, n>>)]
                     o == next_offset(xfer.offset, n, resp)
                 IN IF status # "200"
                    THEN resp = <<>> /\ xfer' = [x EXCEPT !.pc = "raised"]
                    ELSE xfer' = [x EXCEPT !.offset = o,
                                           !.noEo = @ /\ resp = <<>>,
                                           !.pc = IF o < xfer.size THEN "loop" ELSE "returned"]
    /\ UNCHANGED <<postVars, loop, fs, cw>>

NextChunks == ChunkPost

SpecChunks == InitChunks /\ [][NextChunks]_vars

-----------------------------------------------------------------------------
(* save_json_atomic step by step, with a writer that may die at any point  *)
(* and a reader (load_json) that may read at any moment                    *)

InitSave ==
    /\ PostIdle
    /\ loop = IdleLoop
    /\ xfer = IdleXfer
    /\ cw = IdleCw
    /\ \E old \in {Absent} \cup {[exists |-> TRUE, text |-> dumps(d)] : d \in Ledgers} :
          fs = [IdleFs EXCEPT !.files[StatePath] = old, !.pc = "idle", !.prev = old]

(* save_json_atomic(path, data) is called *)
SaveBegin ==
    /\ fs.pc = "idle"
    /\ \E d \in Ledgers :
          fs' = [fs EXCEPT !.pc = "open", !.data = d, !.prev = fs.files[StatePath],
                           !.crashed = FALSE]
    /\ UNCHANGED <<postVars, loop, xfer, cw>>

(* tmp.write_text opens the temp file for writing: created or truncated *)
TmpOpen ==
    /\ fs.pc = "open"
    /\ fs' = [fs EXCEPT !.files[tmp_path(StatePath)] = [exists |-> TRUE, text |-> <<>>],
                        !.pc = "write"]
    /\ UNCHANGED <<postVars, loop, xfer, cw>>

(* the text reaches the temp file piece by piece *)
TmpWrite ==
    /\ fs.pc = "write"
    /\ LET tmp  == tmp_path(StatePath)
           full == dumps(fs.data)
           k    == Len(fs.files[tmp].text) + 1
       IN fs' = [fs EXCEPT !.files[tmp].text = SubSeq(full, 1, k),
                           !.pc = IF k = Len(full) THEN "replace" ELSE "write"]
    /\ UNCHANGED <<postVars, loop, xfer, cw>>

(* tmp.replace(path): the rename *)
TmpReplace ==
    /\ fs.pc = "replace"
    /\ LET tmp == tmp_path(StatePath)
       IN fs' = [fs EXCEPT !.files = [f \in DOMAIN fs.files |->
                                        IF f = StatePath THEN fs.files[tmp]
                                        ELSE IF f = tmp THEN Absent
                                        ELSE fs.files[f]],
                           !.pc = "idle"]
    /\ UNCHANGED <<postVars, loop, xfer, cw>>

(* the writing process dies before the rename *)
Crash ==
    /\ fs.pc \in {"open", "write", "replace"}
    /\ fs' = [fs EXCEPT !.pc = "idle", !.crashed = TRUE]
    /\ UNCHANGED <<postVars, loop, xfer, cw>>

(* load_json(path) by another process: what the reader gets *)
Read ==
    /\ fs.pc # "off"
    /\ fs' = [fs EXCEPT !.seen =
                 IF ~fs.files[StatePath].exists THEN <<"absent">>
                 ELSE IF loads(fs.files[StatePath].text) = <<>> THEN <<"error">>
                 ELSE loads(fs.files[StatePath].text)]
    /\ UNCHANGED <<postVars, loop, xfer, cw>>

NextSave == SaveBegin \/ TmpOpen \/ TmpWrite \/ TmpReplace \/ Crash \/ Read

SpecSave == InitSave /\ [][NextSave]_vars

-----------------------------------------------------------------------------
(* Non-overlapping runs of one comment worker *)

InitComment ==
    /\ PostIdle
    /\ loop = IdleLoop
    /\ xfer = IdleXfer
    /\ fs = IdleFs
    /\ \E worker \in {"yt", "fb"} :
       \E first \in IF worker = "yt" THEN {FreshRec, LegacyRec} ELSE {FreshRec} :
          cw = [IdleCw EXCEPT !.worker = worker, !.pc = "idle", !.items["a"] = first]

(* the records for which a verify_pass at this moment sends the existence query *)
Asked(c) ==
    IF c.worker = "yt"
    THEN {v \in VideoSet : /\ verify_due(reconcile_legacy_missing(c.items[v]), c.now)
                           /\ c.items[v].cid # <<"unknown">>}
    ELSE {}

(* main() up to the selection: the state is loaded; the YouTube worker     *)
(* reconciles legacy records, runs verify_pass and saves what changed      *)
CwBeginWith(env, answer) ==
    LET old(v) == reconcile_legacy_missing(cw.items[v])
    IN /\ cw.pc = "idle"
       /\ \A v \in VideoSet : v \notin Asked(cw) => answer[v] = "yes"
       /\ cw' = [cw EXCEPT
                !.items = IF cw.worker = "yt"
                          THEN [v \in VideoSet |-> verify_pass(old(v), cw.now, answer[v])]
                          ELSE @,
                !.asked = Asked(cw),
                !.raised = {v \in Asked(cw) : answer[v] = "err"},
                !.wrote = IF /\ cw.worker = "yt"
                             /\ \E v \in VideoSet :
                                   verify_pass(old(v), cw.now, answer[v]) # cw.items[v]
                          THEN @ \cup {state_paths(cw.worker).comment} ELSE @,
                !.env = env, !.pc = "pick", !.cur = "", !.out = <<>>]
       /\ UNCHANGED <<postVars, loop, xfer, fs>>

CwBegin ==
    \E env \in Envs :
       \E answer \in [VideoSet -> {"yes", "no", "err"}] : CwBeginWith(env, answer)

(* main() from the selection to the save before the remote call: pick,     *)
(* jitter sleep, plan, then either the policy skip or the pending record   *)
CwPlan ==
    /\ cw.pc = "pick"
    /\ LET p == picked(cw.worker, cw.env, cw.items)
       IN IF p = <<>>
          THEN cw' = [cw EXCEPT !.pc = "idle", !.env = EnvDefault, !.raised = {}]
          ELSE LET v      == p[1]
                   rec    == cw.items[v]
                   always == cw.worker = "yt" /\ cw.env.always_comment
                   plan   == comment_plan(cw.worker, cw.env, rec, v)
                   out    == [jitter |-> jitter_delay(v, cw.now, cw.env.jitter_max),
                              decision |-> plan.decision,
                              template_idx |-> plan.template_idx % TemplateCount(cw.worker)]
                   seen   == IF cw.calc[v] # <<>> THEN cw.calc[v]
                             ELSE <<[day |-> utc_today(cw.now), env |-> cw.env, out |-> out]>>
               IN IF plan.decision = "skip" /\ ~always
                  THEN cw' = [cw EXCEPT !.items[v] = [rec EXCEPT !.plan = <<plan>>,
                                                                 !.tried = cw.now,
                                                                 !.status = "skipped"],
                                        !.cur = v, !.out = <<out>>, !.calc[v] = seen,
                                        !.wrote = @ \cup {state_paths(cw.worker).comment},
                                        !.raised = {},
                                        !.pc = "idle", !.env = EnvDefault]
                  ELSE cw' = [cw EXCEPT !.items[v] = [rec EXCEPT !.plan = <<plan>>,
                                                                 !.attempts = @ + 1,
                                                                 !.tried = cw.now,
                                                                 !.status = "pending"],
                                        !.cur = v, !.out = <<out>>, !.calc[v] = seen,
                                        !.wrote = @ \cup {state_paths(cw.worker).comment},
                                        !.raised = {},
                                        !.pc = "post"]
    /\ UNCHANGED <<postVars, loop, xfer, fs>>

(* the rest of main(): dry run, or the comment is posted and the outcome saved *)
CwPost ==
    /\ cw.pc = "post"
    /\ LET v == cw.cur
       IN IF cw.env.dry_run
          THEN cw' = [cw EXCEPT !.items[v].status = "dry_run",
                                !.pc = "idle", !.env = EnvDefault, !.cur = "", !.out = <<>>]
          ELSE \/ \E cid \in {"c", "unknown"} :
                    /\ cw.posts[v] < MaxPosts
                    /\ cw' = [cw EXCEPT
                                !.items[v] = [@ EXCEPT !.status = IF cw.worker = "yt"
                                                                  THEN "commented_unverified"
                                                                  ELSE "commented",
                                                       !.cid = <<cid>>, !.ts = cw.now],
                                !.posts[v] = @ + 1,
                                !.pc = "idle", !.env = EnvDefault, !.cur = "", !.out = <<>>]
               \/ cw' = [cw EXCEPT !.items[v].status = "failed",
                                   !.pc = "idle", !.env = EnvDefault, !.cur = "", !.out = <<>>]
    /\ UNCHANGED <<postVars, loop, xfer, fs>>

(* time passes between runs *)
CwTick ==
    /\ cw.pc = "idle"
    /\ cw.now < MaxClock
    /\ cw' = [cw EXCEPT !.now = @ + 1]
    /\ UNCHANGED <<postVars, loop, xfer, fs>>

NextComment == CwBegin \/ CwPlan \/ CwPost \/ CwTick

SpecComment == InitComment /\ [][NextComment]_vars

(* The worker run again and again for ever.  The model's clock stops at    *)
(* MaxClock, so a comment request made at that last moment fails: every    *)
(* comment that is posted has a later moment at which it is due.           *)
CwPostLive == CwPost /\ (cw'.posts # cw.posts => cw.now < MaxClock)

NextLive ==
    \/ \E env \in {e \in Envs : e.always_comment} :
       \E answer \in [VideoSet -> {"yes", "no", "err"}] : CwBeginWith(env, answer)
    \/ CwPlan
    \/ CwPostLive
    \/ CwTick

(* a run that has started goes on to its end; time passes between runs;    *)
(* again and again a run gets an answer to each of its existence queries   *)
SpecLive ==
    /\ InitComment
    /\ [][NextLive]_vars
    /\ WF_vars(CwPlan) /\ WF_vars(CwPostLive)
    /\ SF_vars(CwTick)
    /\ SF_vars(\E env \in {e \in Envs : e.always_comment} :
               \E answer \in [VideoSet -> {"yes", "no"}] : CwBeginWith(env, answer))

-----------------------------------------------------------------------------
(* The facebook comment worker beside the facebook poster: both keep their *)
(* data in facebook_reels_post_state.json.  The comment fields of the      *)
(* records are held in cw.items, the rest of the file in disk.             *)

InitShared ==
    /\ platform = "fb"
    /\ manifests = LayoutTwo
    /\ today = 1
    /\ disk = <<>>
    /\ started = [u \in URLS |-> 0]
    /\ published = [u \in URLS |-> 0]
    /\ firstStart = [d \in 1..MaxDay |-> <<>>]
    /\ run = [p \in Procs |-> IdleRun]
    /\ loop = IdleLoop
    /\ xfer = IdleXfer
    /\ fs = IdleFs
    /\ cw = [IdleCw EXCEPT !.worker = "fb", !.pc = "idle"]

(* main() up to the jitter sleep: the state file is loaded once and the    *)
(* latest successful run that may still be commented is picked from it     *)
FcLoad ==
    /\ cw.pc = "idle"
    /\ disk # <<>>
    /\ LET st == disk[1]
           ok == {i \in 1..Len(st.runs) :
                    /\ st.runs[i].result = "success"
                    /\ st.runs[i].video_url \in VideoSet
                    /\ find_latest_success_to_comment(cw.items[st.runs[i].video_url])}
       IN /\ ok # {}
          /\ cw' = [cw EXCEPT !.mem = disk, !.pc = "sleep",
                              !.cur = st.runs[CHOOSE i \in ok : \A j \in ok : j <= i].video_url]
    /\ UNCHANGED <<postVars, loop, xfer, fs>>

(* main() after the sleep: the plan, the comment request, and the saves,   *)
(* each of which writes the state object loaded before the sleep           *)
FcWrite ==
    /\ cw.pc = "sleep"
    /\ LET v    == cw.cur
           rec  == cw.items[v]
           plan == comment_plan("fb", EnvDefault, rec, v)
       IN \E status \in IF plan.decision = "skip" THEN {"skipped"}
                         ELSE {"commented", "failed"} :
             cw' = [cw EXCEPT
                      !.items[v] = [rec EXCEPT !.plan = <<plan>>,
                                               !.status = status,
                                               !.tried = cw.now,
                                               !.attempts = IF status = "skipped"
                                                            THEN @ ELSE @ + 1],
                      !.wrote = @ \cup {state_paths("fb").comment},
                      !.mem = <<>>, !.cur = "", !.pc = "idle"]
    /\ disk' = cw.mem
    /\ UNCHANGED <<platform, manifests, today, started, published, firstStart, run>>
    /\ UNCHANGED <<loop, xfer, fs>>

NextShared ==
    \/ Select(1) \/ Session(1) \/ Upload(1) \/ Publish(1) \/ Poll(1)
    \/ FcLoad
    \/ FcWrite

SpecShared == InitShared /\ [][NextShared]_vars

-----------------------------------------------------------------------------
(* The ledger as the next run would load it *)

DiskState == load_or_init_state(platform, disk)
DiskRec(u) == Rec(DiskState.items, u)
DiskRecNext(u) == Rec(load_or_init_state(platform, disk').items, u)

(* a step in which invocation p performs its selection *)
Selects(p) == run[p].pc \in {"idle", "done"} /\ run'[p] # run[p]

(* invocation p ran to the end of the success path *)
Succeeded(p) ==
    /\ run[p].pc = "done"
    /\ run[p].selRes = "item"
    /\ run[p].err = ""

(* eligibility as the specification words it: source reference and title   *)
(* present, status absent or "ready", not posted, attempts below the cap   *)
SpecEligible(items, it) ==
    /\ it.video_url # ""
    /\ it.title # ""
    /\ (it.status = <<>> \/ LowerText(it.status) = Ready)
    /\ Rec(items, it.video_url).result # "success"
    /\ Rec(items, it.video_url).attempts < MAX_ATTEMPTS_PER_VIDEO

(* an upload outcome the classifier of the platform does not call retriable *)
NonTransient(pl, e) ==
    /\ e # "ok"
    /\ e \notin (CASE pl = "fb" -> FbRetriable [] pl = "ig" -> IgRetriable [] OTHER -> {})

-----------------------------------------------------------------------------
(* C1: over non-overlapping runs, once the ledger records success for an   *)
(* identity, no selection returns it, no run is at work on it and no       *)
(* transfer starts for it; with one eligible item in total the selection   *)
(* returns it, and after its success the next selection returns none.      *)
C1_SuccessNeverReselected ==
    [][/\ \A u \in URLS : DiskRec(u).result = "success" =>
            /\ started'[u] = started[u]
            /\ \A p \in Procs :
                 /\ run'[p].pc \in ActivePcs => run'[p].item.video_url # u
                 /\ Selects(p) => run'[p].item.video_url # u
       /\ \A p \in Procs : (manifests = LayoutOne /\ Selects(p)) =>
            /\ DiskRec("a").result = "success" => run'[p].selRes = "none"
            /\ disk = <<>> => run'[p].item.video_url = "a"
      ]_vars

C1_Witness ==
    /\ manifests = LayoutOne
    /\ DiskRec("a").result = "success"
    /\ run[1].pc = "done"
    /\ run[1].selRes = "none"

(* C2: over non-overlapping runs in which any step may fail, the remote    *)
(* publication of an identity succeeds at most once.                       *)
C2_PublishedAtMostOnce == \A u \in URLS : published[u] <= 1

(* C3: the attempts field of a persisted record never decreases.           *)
C3_AttemptsNeverDecrease ==
    [][\A u \in URLS : DiskRecNext(u).attempts >= DiskRec(u).attempts]_vars

C3_Witness ==
    \E u \in URLS : DiskRec(u).attempts >= 2 /\ DiskRec(u).result = "success"

(* C4: a persisted record whose result is success keeps that result in     *)
(* every later ledger state.                                               *)
C4_SuccessIsTerminal ==
    [][\A u \in URLS : DiskRec(u).result = "success" =>
                          DiskRecNext(u).result = "success"]_vars

C4_Witness ==
    \E i \in 1..Len(DiskState.runs) :
        /\ DiskState.runs[i].result = "success"
        /\ i < Len(DiskState.runs)
        /\ DiskRec(DiskState.runs[i].video_url).result = "success"

(* C5: when two invocations overlap, no identity is brought to a           *)
(* successful publication by both of them.                                 *)
C5_NoTwoSuccessfulRuns ==
    \A u \in URLS :
        Cardinality({p \in Procs : Succeeded(p) /\ run[p].item.video_url = u}) <= 1

(* C6: a run scans from the same bucket as the first run of its day that   *)
(* persisted the rotation cursor.                                          *)
C6_SameStartWithinDay ==
    \A p \in Procs :
        (run[p].pc # "idle" /\ firstStart[run[p].scanDay] # <<>>) =>
            run[p].scanStart = firstStart[run[p].scanDay][1]

(* C7: the selection returns the first eligible item of the day's rotation *)
(* order (buckets from the start index, wrapping; file order within a      *)
(* bucket; a manifest outside the rotation list, where the script reads    *)
(* one, after every bucket), and none exactly when no item is eligible.    *)
C7_FirstEligible ==
    [][\A p \in Procs : Selects(p) =>
          LET items == DiskState.items
              L     == Flatten(OrderFrom(run'[p].scanStart))
                         \o (IF platform = "yt" THEN Flatten(<<ExtraManifest>>) ELSE <<>>)
              elig  == {i \in 1..Len(L) : SpecEligible(items, L[i])}
          IN IF elig = {}
             THEN run'[p].selRes = "none"
             ELSE /\ run'[p].selRes \in {"item", "dry"}
                  /\ \E i \in elig : /\ L[i] = run'[p].item
                                     /\ \A j \in elig : j >= i
      ]_vars

(* C8: the runs that select an identity and start a transfer for it number *)
(* at most MAX_ATTEMPTS_PER_VIDEO.                                         *)
C8_TransfersWithinCap == \A u \in URLS : started[u] <= MAX_ATTEMPTS_PER_VIDEO

(* C9: a run that selected an item and failed in a later step has          *)
(* persisted a failed record with attempts one higher and the error text.  *)
C9_FailureIsRecorded ==
    \A p \in Procs :
        (run[p].pc = "done" /\ run[p].err # "") =>
            LET rec == DiskRec(run[p].item.video_url)
            IN /\ rec.result = "failed"
               /\ rec.attempts = run[p].att0 + 1
               /\ rec.error = run[p].err

(* C10: HTTP 403 is classified non-transient, and an upload error          *)
(* classified non-transient is the last pass of the retry loop: no sleep   *)
(* follows it, no further transfer, and the run is recorded failed.        *)
C10_NonTransientEndsLoop ==
    /\ "E403" \notin (FbRetriable \cup IgRetriable)
    /\ \A p \in Procs : \A i \in 1..Len(run[p].upLog) :
          NonTransient(platform, run[p].upLog[i]) =>
              /\ i = Len(run[p].upLog)
              /\ Len(run[p].sleeps) = i - 1
              /\ run[p].pc = "done"
              /\ run[p].err = run[p].upLog[i]
              /\ DiskRec(run[p].item.video_url).result = "failed"

C10_Witness ==
    /\ platform \in {"fb", "ig"}
    /\ run[1].pc = "done"
    /\ run[1].upLog = <<"E503", "E403">>
    /\ run[1].sleeps # <<>>

(* C11: the k-th sleep of the retry loop lasts the k-th value of the       *)
(* configured schedule, or the last value when k is beyond the schedule's  *)
(* length; a transient failure of attempt k < maxAttempts is followed by   *)
(* that sleep and by attempt k+1.                                          *)
C11_SleepsFollowSchedule ==
    /\ \A k \in 1..Len(loop.sleeps) :
          loop.sleeps[k] = IF k <= Len(loop.delays) THEN loop.delays[k]
                           ELSE loop.delays[Len(loop.delays)]
    /\ \A k \in 1..Len(loop.log) :
          (k < loop.total /\ NonTransient(loop.pl, loop.log[k]) = FALSE /\ loop.log[k] # "ok") =>
              /\ Len(loop.sleeps) >= k
              /\ \/ Len(loop.log) > k
                 \/ loop.pc = "upload" /\ loop.attempt = k + 1

C11_Witness ==
    /\ Len(loop.delays) = 2
    /\ Len(loop.sleeps) = 4
    /\ loop.sleeps[4] = loop.delays[2]
    /\ loop.pc = "done"

(* C12: while no response carries an end_offset, the chunks sent are       *)
(* contiguous and non-overlapping from byte 0, the offset is the number of *)
(* bytes sent, and the function returns only with ceil(fileSize/chunkSize) *)
(* chunks sent and the whole payload length covered.                       *)
C12_ChunksCoverPayload ==
    xfer.noEo =>
        /\ \A i \in 1..Len(xfer.sent) :
              /\ xfer.sent[i][1] = (i - 1) * xfer.chunk
              /\ xfer.sent[i][2] >= 1
              /\ xfer.sent[i][1] + xfer.sent[i][2] =
                     IF i * xfer.chunk <= xfer.size THEN i * xfer.chunk ELSE xfer.size
        /\ xfer.pc \in {"loop", "returned"} =>
              xfer.offset = IF xfer.sent = <<>> THEN 0
                            ELSE xfer.sent[Len(xfer.sent)][1] + xfer.sent[Len(xfer.sent)][2]
        /\ xfer.pc = "returned" =>
              /\ Len(xfer.sent) = (xfer.size + xfer.chunk - 1) \div xfer.chunk
              /\ xfer.offset = xfer.size

C12_Witness ==
    /\ xfer.noEo
    /\ xfer.pc = "returned"
    /\ Len(xfer.sent) = 3
    /\ xfer.size % xfer.chunk # 0

(* C13: until the rename the state file holds exactly its previous         *)
(* content, also after the writer died; the state file is at every moment  *)
(* absent as before or a complete ledger, the old or the new one, and that *)
(* is what a reader gets.                                                  *)
C13_SaveIsAtomic ==
    /\ (fs.pc \in {"open", "write", "replace"} \/ fs.crashed) =>
            fs.files[StatePath] = fs.prev
    /\ fs.files[StatePath] \in
            {fs.prev} \cup {[exists |-> TRUE, text |-> dumps(d)] : d \in Ledgers}
    /\ fs.files[StatePath].exists => loads(fs.files[StatePath].text) # <<>>
    /\ fs.seen # <<"error">>

C13_Witness ==
    /\ fs.crashed
    /\ fs.prev = [exists |-> TRUE, text |-> dumps("v1")]
    /\ fs.data = "v2"
    /\ fs.files[tmp_path(StatePath)].exists
    /\ Len(fs.files[tmp_path(StatePath)].text) = 2
    /\ fs.seen = <<"v1">>

(* C14: once a comment plan (decision, template index) is stored for a     *)
(* video, no step of any later run changes it.                             *)
C14_PlanNeverChanges ==
    [][\A v \in VideoSet :
          cw.items[v].plan # <<>> => cw'.items[v].plan = cw.items[v].plan]_vars

(* C15: a run that works on a video on the same UTC day and under the same *)
(* environment as the first run that worked on it computes the same jitter *)
(* delay, the same decision and the same template index.                   *)
C15_SameInputsSameChoice ==
    [][\A v \in VideoSet :
          (/\ cw.pc = "pick"
           /\ cw'.cur = v
           /\ cw.calc[v] # <<>>
           /\ cw.calc[v][1].day = utc_today(cw.now)
           /\ cw.calc[v][1].env = cw.env)
          => cw'.out = <<cw.calc[v][1].out>>]_vars

(* C16: the step in which a comment is posted leaves the record in the     *)
(* provisional status commented_unverified with the returned comment id;   *)
(* a record becomes commented only in a verification pass that asked for   *)
(* its comment, and never in a step that posts.                            *)
C16_PostedOnlyByVerification ==
    [][\A v \in VideoSet :
          /\ cw'.posts[v] > cw.posts[v] =>
                 /\ cw'.items[v].status = "commented_unverified"
                 /\ cw'.items[v].cid # <<>>
          /\ (cw'.items[v].status = "commented" /\ cw.items[v].status # "commented") =>
                 /\ cw'.posts[v] = cw.posts[v]
                 /\ cw.pc = "idle"
                 /\ v \in cw'.asked]_vars

(* C17: a verification pass less than 30 minutes after the post sends no   *)
(* existence query for the record and leaves it unchanged; a pass 30       *)
(* minutes or more after the post sends the query, and a record it marks   *)
(* not_found has its attempts below the cap, lowered to the cap minus one  *)
(* only if they had reached the cap.                                       *)
C17_VerifyAfterDelay ==
    [][\A v \in VideoSet :
          (/\ cw.pc = "idle" /\ cw'.pc = "pick"
           /\ cw.items[v].status \in {"commented_unverified", "commented"}
           /\ cw.items[v].cid # <<>>
           /\ cw.items[v].ts # 0)
          => IF Moment(cw.now) - Moment(cw.items[v].ts) < 30 * 60
             THEN v \notin cw'.asked /\ cw'.items[v] = cw.items[v]
             ELSE /\ v \in cw'.asked
                  /\ cw'.items[v].status = "not_found" =>
                        cw'.items[v].attempts =
                            IF cw.items[v].attempts >= MAX_COMMENT_ATTEMPTS
                            THEN MAX_COMMENT_ATTEMPTS - 1 ELSE cw.items[v].attempts]_vars

(* C18: no video receives more comment posts than the attempt cap plus the *)
(* one retry that a not-found verification reopens.                        *)
C18_PostsBounded ==
    \A v \in VideoSet : cw.posts[v] <= MAX_COMMENT_ATTEMPTS + 1

(* C19: a run goes on to post only for a video whose record is neither     *)
(* commented nor commented_unverified, a comment is posted only from the   *)
(* pending record of that run, and the Facebook worker posts at most one   *)
(* comment per reel.                                                       *)
C19_NoPostWhilePosted ==
    [][\A v \in VideoSet :
          /\ (cw.pc = "pick" /\ cw'.pc = "post" /\ cw'.cur = v) =>
                 cw.items[v].status \notin {"commented", "commented_unverified"}
          /\ cw'.posts[v] > cw.posts[v] =>
                 /\ cw.pc = "post" /\ cw.cur = v
                 /\ cw.items[v].status = "pending"
          /\ cw.worker = "fb" => cw'.posts[v] <= 1]_vars

C19_Witness ==
    /\ cw.worker = "yt"
    /\ cw.items["b"].status = "commented_unverified"
    /\ cw.posts["b"] = 1
    /\ cw.pc = "post"
    /\ cw.cur = "a"

(* C20: whenever the state file passes to a new UTC day and held a start   *)
(* index before, the index it holds afterwards is the previous one plus 1, *)
(* modulo the number of manifests in the rotation.                         *)
C20_DailyRotation ==
    [][(/\ disk # <<>>
        /\ disk' # <<>>
        /\ disk'[1].rotation.last_day # disk[1].rotation.last_day
        /\ disk[1].rotation.manifest_index # <<>>)
       => disk'[1].rotation.manifest_index =
              <<(disk[1].rotation.manifest_index[1] + 1) % N>>]_vars

(* C21: a selection that finds no eligible item on a day other than the    *)
(* one in the state file leaves the state file holding the new day and the *)
(* rotation the run computed for it.                                       *)
C21_NoItemStillSavesDay ==
    [][\A p \in Procs :
          (/\ Selects(p)
           /\ run'[p].selRes = "none"
           /\ DiskState.rotation.last_day # today)
          => /\ disk' # <<>>
             /\ disk'[1].rotation.last_day = today
             /\ disk'[1].rotation = run'[p].mem.rotation]_vars

(* C22: a run that stops on an error of the selection (a malformed         *)
(* manifest entry, no manifest items) leaves the state file as it was.     *)
C22_ConfigErrorKeepsLedger ==
    [][\A p \in Procs :
          (Selects(p) /\ run'[p].selRes = "error") => disk' = disk]_vars

(* C23: a run makes at most attempts_total passes of the upload, and from  *)
(* every step it moves only forward: to the following step, to its end,    *)
(* or, from the upload alone, to another pass of the upload.  Session      *)
(* creation, publish and poll are therefore entered at most once and a     *)
(* failure of one of them ends the run.                                    *)
C23_OnlyUploadRetried ==
    [][\A p \in Procs :
          (run[p].pc \in ActivePcs /\ run'[p] # run[p]) =>
             /\ Len(run'[p].upLog) <= attempts_total(platform)
             /\ \/ run'[p].pc = "done"
                \/ run[p].pc = "upload" /\ run'[p].pc = "upload"
                \/ /\ ~IsLastStep(platform, run[p].pc)
                   /\ run'[p].pc = NextStep(platform, run[p].pc)
                   /\ run'[p].err = ""
             /\ run'[p].err # "" => run'[p].pc = "done"]_vars

C23_Witness ==
    /\ platform = "ig"
    /\ Len(run[1].upLog) = MAX_RUPLOAD_ATTEMPTS
    /\ run[1].upLog[MAX_RUPLOAD_ATTEMPTS] = "ok"
    /\ Succeeded(1)

(* C24: a retry of the upload starts with no staged file left from the     *)
(* failed pass and downloads the payload again.                            *)
C24_RetryDownloadsAgain ==
    [][\A p \in Procs :
          (/\ run[p].pc = "upload"
           /\ Len(run[p].upLog) >= 1
           /\ run'[p] # run[p])
          => /\ ~run[p].tmp
             /\ run'[p].dl = run[p].dl + 1]_vars

(* C25: the publish call is made only by a run whose status poll has       *)
(* already ended with the success signal.                                  *)
C25_PublishAfterPollSuccess ==
    [][\A p \in Procs :
          (run[p].pc = "publish" /\ run'[p] # run[p]) => run[p].poll = "ok"]_vars

(* C26: a run whose status poll ran into its deadline without the success  *)
(* signal ends with result failed in the state file for its item.          *)
C26_PollTimeoutIsFailure ==
    [][\A p \in Procs :
          (/\ run[p].pc \in ActivePcs
           /\ run'[p].pc = "done"
           /\ run'[p].poll = "timeout")
          => DiskRecNext(run[p].item.video_url).result = "failed"]_vars

C28_IncompleteItemPassedOver ==
    [][\A p \in Procs :
          Selects(p) =>
             /\ run'[p].selRes # "error"
             /\ run'[p].selRes \in {"item", "dry"} =>
                    /\ run'[p].item.video_url # ""
                    /\ run'[p].item.title # ""]_vars

(* C29: a verification pass that finds a stored comment missing leaves the *)
(* record with status not_found and an attempt counter below the cap       *)
(* (cap - 1 if it had reached the cap, unchanged otherwise), so the record *)
(* passes the tests of the next selection whatever the environment.        *)
C29_MissingReopensOneAttempt ==
    [][\A v \in VideoSet :
          LET old == reconcile_legacy_missing(cw.items[v])
              new == cw'.items[v]
          IN (/\ cw.worker = "yt" /\ cw.pc = "idle" /\ cw'.pc = "pick"
              /\ verify_due(old, cw.now)
              /\ new # old /\ new.status # "commented") =>
                /\ new.status = "not_found"
                /\ new.attempts = IF old.attempts >= MAX_COMMENT_ATTEMPTS
                                  THEN MAX_COMMENT_ATTEMPTS - 1 ELSE old.attempts
                /\ new.attempts < MAX_COMMENT_ATTEMPTS
                /\ \A env \in Envs : pick_eligible_video_run(env, new)]_vars

C29_Witness ==
    /\ cw.worker = "yt" /\ cw.pc = "pick"
    /\ cw.items["a"].status = "not_found"
    /\ cw.posts["a"] = MAX_COMMENT_ATTEMPTS
    /\ cw.items["a"].attempts = MAX_COMMENT_ATTEMPTS - 1

C31_RetryAfterCooldown ==
    [][\A v \in VideoSet :
          (/\ cw.pc = "pick" /\ cw'.cur = v
           /\ cw.items[v].status \in {"failed", "skipped"}) =>
              Moment(cw.now) - Moment(cw.items[v].tried) >= 3600]_vars

(* C32: a run whose decision is skip stores status skipped and makes no    *)
(* comment request; and a run under the default environment leaves a       *)
(* skipped record as it is and posts no comment for it.                    *)
C32_SkippedIsTerminal ==
    [][\A v \in VideoSet :
          /\ (cw.pc = "pick" /\ cw'.cur = v /\ cw'.out[1].decision = "skip") =>
                /\ cw'.pc = "idle"
                /\ cw'.items[v].status = "skipped"
                /\ cw'.posts = cw.posts
          /\ (/\ cw.items[v].status = "skipped"
              /\ IF cw.pc = "idle" THEN cw'.env = EnvDefault ELSE cw.env = EnvDefault) =>
                /\ cw'.items[v] = cw.items[v]
                /\ cw'.posts[v] = cw.posts[v]
                /\ cw.pc = "pick" => cw'.cur # v]_vars

C32_Witness ==
    /\ cw.pc = "pick" /\ cw.env = EnvDefault
    /\ cw.items["b"].status = "skipped"
    /\ cw.items["a"].status = "failed"
    /\ picked(cw.worker, cw.env, cw.items) = <<>>

(* C33: every transfer ends: the retry loop makes at most maxAttempts      *)
(* passes, a poll step is left by its next step, and every pass of the     *)
(* chunk loop that does not end the loop moves the offset forward, so that *)
(* no sequence of acknowledged end offsets keeps the loop running.         *)
C33_TransferTerminates ==
    [][/\ Len(loop'.log) <= loop'.total
       /\ \A p \in Procs : (run[p].pc = "poll" /\ run'[p] # run[p]) => run'[p].pc # "poll"
       /\ (xfer.pc = "loop" /\ xfer' # xfer /\ xfer'.pc = "loop") =>
              xfer'.offset > xfer.offset]_vars

(* C34: the youtube comment worker never writes youtube_post_state.json;   *)
(* the only file its runs write is youtube_comment_state.json.             *)
C34_PostLedgerReadOnly ==
    cw.worker = "yt" =>
        /\ state_paths("yt").post \notin cw.wrote
        /\ cw.wrote \subseteq {"youtube_comment_state.json"}

C34_Witness ==
    /\ cw.worker = "yt"
    /\ cw.wrote = {"youtube_comment_state.json"}
    /\ cw.items["a"].status = "not_found"
    /\ cw.items["b"].status = "skipped"

(* C35: a record whose existence query raised in a verification pass keeps *)
(* its status and its attempt counter, and the selection of that run does  *)
(* not find it eligible for a new comment.                                 *)
C35_FailedQueryChangesNothing ==
    [][\A v \in VideoSet :
          (cw.pc = "idle" /\ cw'.pc = "pick" /\ v \in cw'.raised) =>
             LET old == reconcile_legacy_missing(cw.items[v])
             IN /\ cw'.items[v].status = old.status
                /\ cw'.items[v].attempts = old.attempts
                /\ cw'.items[v] = old
                /\ \A env \in Envs : ~pick_eligible_video_run(env, cw'.items[v])]_vars

C35_Witness ==
    /\ cw.worker = "yt" /\ cw.pc = "pick"
    /\ cw.raised = {"a"} /\ cw.asked = {"a", "b"}
    /\ cw.items["a"].status = "commented_unverified"
    /\ cw.items["a"].attempts = MAX_COMMENT_ATTEMPTS
    /\ cw.items["b"].status = "not_found"

(* C36: in every state file written by non-overlapping runs that started   *)
(* from no state file, the attempts of each identity equal the number of   *)
(* entries of the run log for it; a run appends at most one entry to the   *)
(* run log and leaves the earlier entries as they were.                    *)
C36_AttemptsMatchRunLog ==
    [][LET old == DiskState.runs
           new == load_or_init_state(platform, disk').runs
       IN /\ \A u \in URLS :
                DiskRecNext(u).attempts =
                    Cardinality({i \in 1..Len(new) : new[i].video_url = u})
          /\ Len(new) \in {Len(old), Len(old) + 1}
          /\ SubSeq(new, 1, Len(old)) = old]_vars

C36_Witness ==
    /\ platform = "ig"
    /\ Len(DiskState.runs) = 3
    /\ DiskState.runs[1].video_url # DiskState.runs[2].video_url
    /\ \E u \in URLS : DiskRec(u).attempts = 2 /\ DiskRec(u).result = "success"

(* C37: a step of a post run changes the persisted record of no identity   *)
(* but the one the run selected; when it changes that one, its attempts    *)
(* are one more than before, and the run is over.                          *)
C37_OnlySelectedRecordChanges ==
    [][\A p \in Procs : run'[p] # run[p] =>
          \A u \in URLS :
             \/ DiskRecNext(u) = DiskRec(u)
             \/ /\ u = run'[p].item.video_url
                /\ DiskRecNext(u).attempts = DiskRec(u).attempts + 1
                /\ DiskRecNext(u).attempts = run'[p].att0 + 1
                /\ run'[p].pc = "done"]_vars

C37_Witness ==
    /\ run[1].pc = "done" /\ run[1].selRes = "item"
    /\ DiskRec(run[1].item.video_url).attempts = run[1].att0 + 1
    /\ run[1].att0 = 1
    /\ \E u \in URLS : u # run[1].item.video_url /\ DiskRec(u).result = "success"

(* C38: a dry run makes no remote call and leaves every item as eligible   *)
(* as it was: a dry post run changes no persisted record and starts no     *)
(* transfer; a dry comment run posts nothing, leaves the attempt counter   *)
(* of the record as it was and stores no status that the selection passes  *)
(* over.                                                                   *)
C38_DryRunChangesNoEligibility ==
    [][/\ \A p \in Procs :
             (Selects(p) /\ run'[p].selRes = "dry") =>
                /\ \A u \in URLS : DiskRecNext(u) = DiskRec(u)
                /\ started' = started /\ published' = published
       /\ \A v \in VideoSet :
             (cw.pc \in {"pick", "post"} /\ cw.env.dry_run /\ cw'.cur = v) =>
                /\ cw'.posts = cw.posts
                /\ cw'.items[v].attempts = cw.items[v].attempts
                /\ pick_eligible_video_run(EnvDefault, cw.items[v]) =>
                       pick_eligible_video_run(EnvDefault, cw'.items[v])]_vars

(* C39: the comment worker's write of the shared facebook state file keeps *)
(* every record and run entry the poster wrote since the worker loaded the *)
(* file.                                                                   *)
C39_WorkerKeepsPosterUpdate ==
    [][(cw.pc = "sleep" /\ cw'.pc = "idle") =>
          /\ \A u \in URLS : DiskRecNext(u) = DiskRec(u)
          /\ load_or_init_state(platform, disk').runs = DiskState.runs]_vars

(* C40: the attempt counter of every comment record is between 0 and       *)
(* MAX_COMMENT_ATTEMPTS; it is raised only by one and only from a value    *)
(* below the cap, and a comment is posted only for the record whose        *)
(* counter the run has raised in this way.                                 *)
C40_CommentAttemptsWithinCap ==
    /\ \A v \in VideoSet : cw.items[v].attempts \in 0..MAX_COMMENT_ATTEMPTS
    /\ [][\A v \in VideoSet :
             /\ cw'.items[v].attempts \in 0..MAX_COMMENT_ATTEMPTS
             /\ cw'.items[v].attempts > cw.items[v].attempts =>
                    /\ cw.items[v].attempts < MAX_COMMENT_ATTEMPTS
                    /\ cw'.items[v].attempts = cw.items[v].attempts + 1
                    /\ cw'.items[v].status = "pending"
             /\ cw'.posts[v] > cw.posts[v] =>
                    /\ cw.items[v].status = "pending"
                    /\ cw.cur = v
                    /\ cw.items[v].attempts - 1 < MAX_COMMENT_ATTEMPTS]_vars

C40_Witness ==
    /\ cw.worker = "fb"
    /\ cw.items["a"].attempts = MAX_COMMENT_ATTEMPTS
    /\ cw.items["a"].status = "commented"
    /\ cw.posts["a"] = 1

=============================================================================
